---- MODULE Spec2Model ----
(***************************************************************************)
(* A model of parts of the starwhale client:                               *)
(*   - core/eval/executor.py: EvalExecutor, the four-stage evaluation job  *)
(*     pipeline and its manifest (specification Spec);                     *)
(*   - core/dataset/copy.py: DatasetCopy, the descriptor generators        *)
(*     upload_files / download_files (specification SpecCopy), and the     *)
(*     synchronization of the tabular rows that precedes the transfer of   *)
(*     the files (specification SpecSync).                                 *)
(***************************************************************************)
EXTENDS Integers, Sequences, FiniteSets, TLC

VARIABLES
    obj,            \* "none" | "alive" | "rejected": EvalExecutor.__init__ outcome
    init_error,     \* the exception __init__ raised, or NoExc
    darwin_arm,     \* is_darwin(arm=True) of the platform
    use_docker,     \* self.use_docker
    runtime_uri,    \* self.runtime_uri ("" when absent)
    gencmd,         \* self.gencmd
    version,        \* self._version
    workdir,        \* self._workdir
    manifest,       \* self._manifest
    dirs,           \* directories that exist on the filesystem
    status_file,    \* content of <dir>/status/current per directory, or Absent
    manifest_file,  \* content of <dir>/_manifest.yaml per directory, or Absent
    pc,             \* position of the thread inside run()
    args,           \* arguments of the run() call in progress
    op_idx,         \* index into operations inside run_with_progress_bar
    exc,            \* the exception in flight, or NoExc
    trace,          \* what the run() call in progress has done, in order
    run_writes,     \* what the run() call in progress wrote on the filesystem
    outcome,        \* what the caller of the last run() observed
    runs,           \* number of run() calls made on the executor
    cmd,            \* the docker command the run() call in progress generated
    calls,          \* the commands the run() call in progress executed
    signature,      \* the "signature" list of the bundle manifest in the workdir
    meta_exists,    \* whether the metadata archive exists in the workdir
    data_dir,       \* whether <workdir>/data exists
    links,          \* the symlinks in <workdir>/data
    direction,      \* "upload" | "download": the generator being enumerated
    consumer,       \* "incremental" | "collect": how the caller reads it
    gen,            \* "none" | "new" | "suspended" | "raised" | "done" | "closed"
    gen_pos,        \* the yield the generator is suspended at (0: not started)
    gen_exc,        \* the exception the generator raised, or NoExc
    yielded,        \* the descriptors the generator has yielded, in order
    transported,    \* the descriptors handed to the transport, in order
    created,        \* the link names this enumeration created, in order
    enumerations,   \* number of enumerations started
    sync_dir,       \* "upload" | "download": the direction of the row sync
    rows,           \* the rows of the local and of the remote table
    rows0,          \* the rows of both tables when the sync was called
    chan,           \* "unopened" | "open" | "closed", per TabularDataset
    closes,         \* how often each TabularDataset has been closed
    cursor,         \* number of rows the scan has produced
    row,            \* the loop variable: the row in flight, or NoRow
    sync_exc,       \* the exception in flight in the sync, or NoExc
    sync_trace,     \* what the sync has done, in order
    planning,       \* whether the inherited enumeration/transfer step has started
    sync_pc         \* position of the thread inside the sync

execVars == <<obj, init_error, darwin_arm, use_docker, runtime_uri, gencmd,
              version, workdir, manifest, dirs, status_file,
              manifest_file, pc, args, op_idx, exc, trace, run_writes,
              outcome, runs, cmd, calls>>

\* what only the container backend of the last stage changes
cntrVars == <<cmd, calls>>

copyVars == <<signature, meta_exists, data_dir, links, direction, consumer, gen,
              gen_pos,
              gen_exc, yielded, transported, created, enumerations>>

syncVars == <<sync_dir, rows, rows0, chan, closes, cursor, row, sync_exc,
              sync_trace, planning, sync_pc>>

vars == <<execVars, copyVars, syncVars>>

(***************************************************************************)
(* Bounds and program constants                                            *)
(***************************************************************************)
MaxRuns == 2
MaxSignatures == 3
MaxEnumerations == 2
MaxRows == 2

\* DatasetStorage.short_sign_cnt, scaled down to the hashes of ManifestEntries
short_sign_cnt == 2

VERSION_PREFIX_CNT == 2

Absent == "<absent>"
\* a manifest key that holds no version / no task index
NoVersion == <<"<absent>">>
NoTaskIndex == 0 - 1
\* a manifest file that does not exist
NoManifest == [status |-> Absent, version |-> NoVersion, type |-> Absent,
               step |-> Absent, task_index |-> NoTaskIndex,
               error_message |-> Absent]
\* a status marker file that does not exist
NoMarker == [exists |-> FALSE, content |-> <<>>]
Marker(c) == [exists |-> TRUE, content |-> c]
NoExc == [type |-> "none", msg |-> ""]
\* no docker command has been generated
NoCmd == <<>>
\* the caller of run() has observed nothing yet
NoOutcome == [kind |-> "none", version |-> <<>>, exc |-> NoExc]

\* PipelineHandler.STATUS
STATUS_START == "start"
STATUS_RUNNING == "running"
STATUS_SUCCESS == "success"
STATUS_FAILED == "failed"

\* EvalTaskType
TYPE_ALL == "all"
TYPE_SINGLE == "single"

\* The characters of _STATUS.SUCCESS as they appear in a status file.
SuccessChars == <<"s", "u", "c", "c", "e", "s", "s">>
Whitespace == {" ", "\n"}

\* Contents a job may leave in <workdir>/status/current.
MarkerContents ==
    { SuccessChars,
      <<" ">> \o SuccessChars \o <<"\n">>,
      <<"f", "a", "i", "l", "e", "d">> }

\* Versions a caller may pass to __init__ ("" means: generate one).
EmptyVersion == <<>>
SuppliedVersions == { <<"a", "b", "c">> }
\* gen_uniq_version(name)
GeneratedVersion == <<"g", "e", "n">>

TaskTypes == {TYPE_ALL, TYPE_SINGLE, "ppl"}
Steps == {"", "infer"}
TaskIndexes == {2}

\* Messages of the exceptions the external collaborators raise.
StageErrors == {"boom"}

(***************************************************************************)
(* Pure helpers                                                            *)
(***************************************************************************)
\* s[:n]
Take(s, n) == SubSeq(s, 1, IF Len(s) < n THEN Len(s) ELSE n)

RECURSIVE LStrip(_)
LStrip(s) == IF s # <<>> /\ Head(s) \in Whitespace THEN LStrip(Tail(s)) ELSE s

RECURSIVE RStrip(_)
RStrip(s) ==
    IF s # <<>> /\ s[Len(s)] \in Whitespace
    THEN RStrip(SubSeq(s, 1, Len(s) - 1))
    ELSE s

\* str.strip()
NoStrip(s) == s
Strip(s) == RStrip(LStrip(s))

\* Path()
CWD == <<".">>
project_dir == <<"project">>

\* project_dir / URIType.EVALUATION / version[:VERSION_PREFIX_CNT] / version
JobDir(v) == project_dir \o <<"evaluation", Take(v, VERSION_PREFIX_CNT), v>>

AllVersions == SuppliedVersions \cup {GeneratedVersion}
Paths == {CWD} \cup {JobDir(v) : v \in AllVersions}

DirWrite(p) == [kind |-> "dir", path |-> p]
ManifestWrite(p) == [kind |-> "manifest", path |-> p]
MarkerWrite(p) == [kind |-> "marker", path |-> p]

StageNames == {"prepare workdir", "extract model", "extract runtime", "run eval job"}

\* the list built in _do_run and handed to run_with_progress_bar
operations_swapped ==
    <<"extract model", "prepare workdir", "extract runtime", "run eval job">>
operations ==
    <<"prepare workdir", "extract model", "extract runtime", "run eval job">>

(***************************************************************************)
(* EvalExecutor.__init__ and _do_validate                                  *)
(***************************************************************************)
_do_validate_no_platform(ud, ru, da) ==
    IF ud /\ ru = ""
    THEN [type |-> "FieldTypeOrValueError", msg |-> "runtime_uri is none"]
    ELSE NoExc

\* the exception _do_validate raises, or NoExc
_do_validate(ud, ru, da) ==
    IF ud
    THEN IF ru = ""
         THEN [type |-> "FieldTypeOrValueError", msg |-> "runtime_uri is none"]
         ELSE IF da
              THEN [type |-> "NoSupportError", msg |-> "use docker on darwin arm"]
              ELSE NoExc
    ELSE NoExc

Construct ==
    /\ obj = "none"
    /\ \E v \in SuppliedVersions \cup {EmptyVersion},
          ud \in BOOLEAN, ru \in {"", "rt"}, gc \in BOOLEAN, da \in BOOLEAN :
        /\ darwin_arm' = da
        /\ use_docker' = ud
        /\ runtime_uri' = ru
        /\ gencmd' = gc
        /\ version' = IF v = EmptyVersion THEN GeneratedVersion ELSE v
        /\ manifest' = [NoManifest EXCEPT
                          !.status = STATUS_START,
                          !.version = IF v = EmptyVersion
                                      THEN GeneratedVersion ELSE NoVersion]
        /\ workdir' = CWD
        /\ init_error' = _do_validate(ud, ru, da)
        /\ obj' = IF _do_validate(ud, ru, da) = NoExc THEN "alive" ELSE "rejected"
    /\ UNCHANGED <<dirs, status_file, manifest_file, pc, args, op_idx, exc,
                   trace, run_writes, outcome, runs>>

(***************************************************************************)
(* EvalExecutor.run / _do_run                                              *)
(***************************************************************************)
StepCheckNever(typ, step) == NoExc

\* the precondition of _do_run: the exception it raises, or NoExc
StepCheck(typ, step) ==
    IF typ # TYPE_ALL /\ step = ""
    THEN [type |-> "FieldTypeOrValueError", msg |-> "step is none"]
    ELSE NoExc

\* run() is called; _do_run records the task and validates it
RunBegin ==
    /\ obj = "alive"
    /\ pc = "idle"
    /\ runs < MaxRuns
    /\ \E typ \in TaskTypes, step \in Steps, ti \in TaskIndexes :
        /\ args' = [typ |-> typ, step |-> step, task_index |-> ti]
        /\ exc' = StepCheck(typ, step)
        /\ manifest' =
             IF typ # TYPE_ALL /\ StepCheck(typ, step) = NoExc
             THEN [manifest EXCEPT !.type = typ, !.status = STATUS_RUNNING,
                                   !.step = step, !.task_index = ti]
             ELSE [manifest EXCEPT !.type = typ, !.status = STATUS_RUNNING]
        /\ pc' = IF StepCheck(typ, step) = NoExc THEN "ops" ELSE "except"
    /\ op_idx' = 1
    /\ trace' = <<"call">>
    /\ run_writes' = {}
    /\ outcome' = NoOutcome
    /\ runs' = runs + 1
    /\ cmd' = NoCmd
    /\ calls' = <<>>
    /\ UNCHANGED <<obj, init_error, darwin_arm, use_docker, runtime_uri, gencmd,
                   version, workdir, dirs, status_file,
                   manifest_file>>

\* run_with_progress_bar: the operation at op_idx is the one to call now
AtOperation(name) ==
    /\ pc = "ops"
    /\ op_idx \in 1..Len(operations)
    /\ operations[op_idx] = name

\* run_with_progress_bar: the called operation returned
OperationReturns(name) ==
    /\ trace' = Append(trace, name)
    /\ exc' = NoExc
    /\ IF op_idx < Len(operations)
       THEN pc' = "ops" /\ op_idx' = op_idx + 1
       ELSE pc' = "finally" /\ op_idx' = op_idx

\* run_with_progress_bar: the called operation raised e, which propagates
OperationRaises(name, e) ==
    /\ trace' = trace \o <<name, "raised", e.msg>>
    /\ exc' = e
    /\ pc' = "except"
    /\ op_idx' = op_idx

StageError(m) == [type |-> "Exception", msg |-> m]

_prepare_workdir ==
    /\ AtOperation("prepare workdir")
    /\ workdir' = JobDir(version)
    /\ \/ /\ dirs' = dirs \cup {JobDir(version), JobDir(version) \o <<"swmp">>}
          /\ run_writes' = run_writes \cup {DirWrite(JobDir(version)),
                                            DirWrite(JobDir(version) \o <<"swmp">>)}
          /\ OperationReturns("prepare workdir")
       \/ \E m \in StageErrors :
          /\ UNCHANGED <<dirs, run_writes>>
          /\ OperationRaises("prepare workdir", StageError(m))
    /\ UNCHANGED <<obj, init_error, darwin_arm, use_docker, runtime_uri, gencmd,
                   version, manifest, status_file, manifest_file,
                   args, outcome, runs>>

_extract_swmp ==
    /\ AtOperation("extract model")
    /\ \/ OperationReturns("extract model")
       \/ \E m \in StageErrors :
          OperationRaises("extract model", StageError(m))
    /\ UNCHANGED <<obj, init_error, darwin_arm, use_docker, runtime_uri, gencmd,
                   version, workdir, manifest, dirs, status_file, manifest_file,
                   args, run_writes, outcome, runs>>

_extract_swrt ==
    /\ AtOperation("extract runtime")
    /\ \/ OperationReturns("extract runtime")
       \/ \E m \in StageErrors :
          /\ runtime_uri # "" /\ use_docker
          /\ OperationRaises("extract runtime", StageError(m))
    /\ UNCHANGED <<obj, init_error, darwin_arm, use_docker, runtime_uri, gencmd,
                   version, workdir, manifest, dirs, status_file,
                   manifest_file, args, run_writes, outcome, runs>>

\* the job that ran wrote its status marker, or wrote none
JobLeavesMarker ==
    \/ UNCHANGED <<status_file, run_writes>>
    \/ \E c \in MarkerContents :
        /\ status_file' = [status_file EXCEPT ![workdir] = Marker(c)]
        /\ run_writes' = run_writes \cup {MarkerWrite(workdir)}

(***************************************************************************)
(* The container backend: _gen_run_container_cmd, _do_run_cmd_in_container *)
(***************************************************************************)
\* A command is the list of its words, each word the list of the pieces it
\* is formatted from; " ".join(cmd) puts a blank between consecutive words.
\* A piece in angle brackets stands for a value the executor takes from its
\* configuration.
Word(s) == <<s>>
Digits == <<"0", "1", "2", "3", "4", "5", "6", "7", "8", "9">>
\* str(task_index) inside an f-string
IntStr(i) == Digits[i + 1]

\* the SW_PYPI_* variables os.environ may hold
PypiNames ==
    <<"SW_PYPI_INDEX_URL", "SW_PYPI_EXTRA_INDEX_URL", "SW_PYPI_TRUSTED_HOST">>
Environments == {{}, {"SW_PYPI_INDEX_URL"}}

\* for _ee in (...): if _ee not in _env: continue; cmd.extend(["-e", ...])
RECURSIVE Passthrough(_, _)
Passthrough(names, env) ==
    IF names = <<>>
    THEN <<>>
    ELSE (IF Head(names) \in env
          THEN << Word("-e"), <<Head(names), "=", "<value>">> >>
          ELSE <<>>)
         \o Passthrough(Tail(names), env)

\* if typ == EvalTaskType.SINGLE: the entrypoint and the task environment
TaskScopedNever(typ, step, task_index) ==
    [entrypoint |-> "run_all", env |-> <<>>]
TaskScoped(typ, step, task_index) ==
    IF typ = TYPE_SINGLE
    THEN [entrypoint |-> "run_single",
          env |-> << Word("-e"), <<"SW_TASK_STEP=", step>>,
                     Word("-e"), <<"SW_TASK_INDEX=", IntStr(task_index)>> >>]
    ELSE [entrypoint |-> "run_all", env |-> <<>>]

\* if typ not in (EvalTaskType.ALL, EvalTaskType.SINGLE): raise Exception(...)
GenCmdRaises(typ) == typ \notin {TYPE_ALL, TYPE_SINGLE}

\* the words of the command _gen_run_container_cmd returns
_gen_run_container_cmd(typ, step, task_index, env) ==
    LET scoped == TaskScoped(typ, step, task_index)
    IN  << Word("docker"), Word("run"), Word("--net=host"), Word("--rm"),
           Word("--name"), version \o <<"-", step, "-", IntStr(task_index)>>,
           Word("-e"), Word("DEBUG=1"),
           Word("-v"), Word("<_run_dir>:/opt/starwhale"),
           Word("-v"), Word("<project_dir/DATASET>:/root/.starwhale/<project>/<DATASET>"),
           Word("-v"), Word("<datastore_dir>:/root/.starwhale/.datastore"),
           Word("-v"), Word("<_model_dir>:/opt/starwhale/<SWMP>/src"),
           Word("-v"), Word("<_model_dir>/<MODEL>:/opt/starwhale/<SWMP>/<MODEL>"),
           Word("-v"), Word("<_runtime_dir>/dep:/opt/starwhale/<SWMP>/dep"),
           Word("-v"), Word("<_runtime_dir>/<MANIFEST>:/opt/starwhale/<SWMP>/<MANIFEST>") >>
        \o scoped.env
        \o << Word("-e"), <<"<SWEnv.instance_uri>=", "<uri>">>,
              Word("-e"), <<"<SWEnv.project>=", "<project>">>,
              Word("-e"), <<"<SWEnv.eval_version>=">> \o version,
              Word("-e"), <<"<SWEnv.dataset_uri>=", "<dataset_uris[0]>">>,
              Word("-v"), Word("<host_cache_dir>:<cntr_cache_dir>") >>
        \o Passthrough(PypiNames, env)
        \o << Word("<baseimage>"), Word(scoped.entrypoint) >>

\* f"docker pull {self.baseimage}"
PullCmd == << Word("docker"), Word("pull"), Word("<baseimage>") >>

\* _do_run_eval_job -> _do_run_cmd -> _do_run_cmd_in_host | _do_run_cmd_in_container
_do_run_eval_job ==
    /\ AtOperation("run eval job")
    /\ LET _type == manifest.type
           _step == IF _type # TYPE_ALL THEN manifest.step ELSE ""
           _task_index == IF _type # TYPE_ALL THEN manifest.task_index ELSE 0
       IN  IF use_docker
           THEN IF GenCmdRaises(_type)
                THEN /\ UNCHANGED <<status_file, run_writes, cmd, calls>>
                     /\ OperationRaises("run eval job",
                                        StageError("no support to gen docker cmd"))
                ELSE \E env \in Environments :
                       /\ cmd' = _gen_run_container_cmd(_type, _step, _task_index, env)
                       /\ IF gencmd
                          THEN /\ UNCHANGED <<status_file, run_writes, calls>>
                               /\ OperationReturns("run eval job")
                          ELSE \/ /\ calls' = <<PullCmd>>
                                  /\ UNCHANGED <<status_file, run_writes>>
                                  /\ \E m \in StageErrors :
                                        OperationRaises("run eval job", StageError(m))
                               \/ /\ calls' = <<PullCmd, cmd'>>
                                  /\ JobLeavesMarker
                                  /\ \/ OperationReturns("run eval job")
                                     \/ \E m \in StageErrors :
                                           OperationRaises("run eval job",
                                                           StageError(m))
           ELSE /\ JobLeavesMarker
                /\ UNCHANGED <<cmd, calls>>
                /\ \/ OperationReturns("run eval job")
                   \/ \E m \in StageErrors :
                         OperationRaises("run eval job", StageError(m))
    /\ UNCHANGED <<obj, init_error, darwin_arm, use_docker, runtime_uri, gencmd,
                   version, workdir, manifest, dirs, manifest_file,
                   args, outcome, runs>>

\* run(): except Exception as e
ExceptHandlerSwallows ==
    /\ pc = "except"
    /\ manifest' = [manifest EXCEPT !.status = STATUS_FAILED,
                                    !.error_message = exc.msg]
    /\ exc' = NoExc
    /\ pc' = "finally"
    /\ UNCHANGED <<obj, init_error, darwin_arm, use_docker, runtime_uri, gencmd,
                   version, workdir, dirs, status_file, manifest_file,
                   args, op_idx, trace, run_writes, outcome, runs>>

ExceptHandlerSkipsFinally ==
    /\ pc = "except"
    /\ manifest' = [manifest EXCEPT !.status = STATUS_FAILED,
                                    !.error_message = exc.msg]
    /\ pc' = "exit"
    /\ UNCHANGED <<obj, init_error, darwin_arm, use_docker, runtime_uri, gencmd,
                   version, workdir, dirs, status_file, manifest_file,
                   args, op_idx, exc, trace, run_writes, outcome, runs>>

ExceptHandler ==
    /\ pc = "except"
    /\ manifest' = [manifest EXCEPT !.status = STATUS_FAILED,
                                    !.error_message = exc.msg]
    /\ pc' = "finally"
    /\ UNCHANGED <<obj, init_error, darwin_arm, use_docker, runtime_uri, gencmd,
                   version, workdir, dirs, status_file, manifest_file,
                   args, op_idx, exc, trace, run_writes, outcome, runs>>

RenderStatusNoStrip(marker) ==
    IF ~marker.exists \/ NoStrip(marker.content) = SuccessChars
    THEN STATUS_SUCCESS ELSE STATUS_FAILED

\* the status _render_manifest computes from <workdir>/status/current
RenderStatus(marker) ==
    IF ~marker.exists \/ Strip(marker.content) = SuccessChars
    THEN STATUS_SUCCESS ELSE STATUS_FAILED

\* run(): finally: self._render_manifest()
_render_manifest ==
    /\ pc = "finally"
    /\ manifest' = [manifest EXCEPT !.status = RenderStatus(status_file[workdir])]
    /\ manifest_file' = [manifest_file EXCEPT ![workdir] = manifest']
    /\ run_writes' = run_writes \cup {ManifestWrite(workdir)}
    /\ trace' = Append(trace, "render")
    /\ pc' = "exit"
    /\ UNCHANGED <<obj, init_error, darwin_arm, use_docker, runtime_uri, gencmd,
                   version, workdir, dirs, status_file, args, op_idx,
                   exc, outcome, runs>>

\* run() leaves: return self._version, or the exception reaches the caller
RunExit ==
    /\ pc = "exit"
    /\ outcome' = IF exc = NoExc
                  THEN [kind |-> "returned", version |-> version, exc |-> NoExc]
                  ELSE [kind |-> "raised", version |-> EmptyVersion, exc |-> exc]
    /\ trace' = Append(trace, IF exc = NoExc THEN "return" ELSE "raise")
    /\ exc' = NoExc
    /\ pc' = "idle"
    /\ UNCHANGED <<obj, init_error, darwin_arm, use_docker, runtime_uri, gencmd,
                   version, workdir, manifest, dirs, status_file,
                   manifest_file, args, op_idx, run_writes, runs>>

(***************************************************************************)
(* DatasetCopy: the bundle manifest and the descriptor generators          *)
(***************************************************************************)
\* DatasetStorage.object_hash_algo
object_hash_algo == <<"blake2b">>
\* ARCHIVED_SWDS_META_FNAME
ARCHIVED_SWDS_META_FNAME == <<"archive.swds_meta">>

\* "size:algo:hash" signature entries a manifest may hold, as text
ManifestEntries ==
    { <<"7", ":", "blake2b", ":", "a", "b", "c">>,
      <<"9", ":", "blake2b", ":", "a", "b", "d">>,
      <<"3", ":", "blake2b", ":", "x", "y", "z">>,
      <<"5", ":", "md5", ":", "p", "q", "r">>,
      <<"7", ":", "blake2b">> }

SignatureLists ==
    UNION {[1..n -> ManifestEntries] : n \in 0..MaxSignatures}

\* str.split(sep)
RECURSIVE Split(_, _)
Split(s, sep) ==
    IF \A i \in 1..Len(s) : s[i] # sep
    THEN <<s>>
    ELSE LET i == CHOOSE k \in 1..Len(s) :
                      s[k] = sep /\ \A j \in 1..(k - 1) : s[j] # sep
         IN  <<SubSeq(s, 1, i - 1)>> \o Split(SubSeq(s, i + 1, Len(s)), sep)

\* _size, _algo, _hash = _k.split(":") raises ValueError unless 3 fields
UnpackFails(k) == Len(Split(k, ":")) # 3
SizeOf(k) == Split(k, ":")[1]
AlgoOf(k) == Split(k, ":")[2]
HashOf(k) == Split(k, ":")[3]

\* if _algo != DatasetStorage.object_hash_algo
AlgoMismatchNever(k) == FALSE
AlgoMismatch(k) == AlgoOf(k) # object_hash_algo

\* _hash[: DatasetStorage.short_sign_cnt]
ShortNameFull(h) == h
ShortName(h) == Take(h, short_sign_cnt)

\* DatasetStorage._get_object_store_path(_hash)
ObjectStorePath(h) == [base |-> "objectstore", parts |-> <<h>>]
\* workdir / ...
WorkdirPath(parts) == [base |-> "workdir", parts |-> parts]
\* os.path.basename
Basename(path) == path.parts[Len(path.parts)]

FileDesc(path, name, size, file_type, sig) ==
    [path |-> path, name |-> name, size |-> size, file_type |-> file_type,
     signature |-> sig]

\* the DATA descriptor upload_files yields for entry k
UploadDataSizeAsHash(k) ==
    LET _path == WorkdirPath(<< <<"data">>, ShortName(HashOf(k)) >>)
    IN  FileDesc(_path, Basename(_path), HashOf(k), "DATA", SizeOf(k))
UploadData(k) ==
    LET _path == WorkdirPath(<< <<"data">>, ShortName(HashOf(k)) >>)
    IN  FileDesc(_path, Basename(_path), SizeOf(k), "DATA", HashOf(k))

\* the SRC_TAR descriptor upload_files yields; <<"st_size">> is the archive size
UploadMeta(n) ==
    LET _path == WorkdirPath(<<n>>)
    IN  FileDesc(_path, Basename(_path), <<"st_size">>, "SRC_TAR", <<>>)

\* the DATA descriptor download_files yields for entry k
DownloadDataFullName(k) ==
    FileDesc(ObjectStorePath(HashOf(k)), HashOf(k), SizeOf(k), "DATA", HashOf(k))
DownloadData(k) ==
    FileDesc(ObjectStorePath(HashOf(k)), ShortName(HashOf(k)), SizeOf(k),
             "DATA", HashOf(k))

\* the SRC_TAR descriptor download_files yields
DownloadMeta(f) == FileDesc(WorkdirPath(<<f>>), f, <<"0">>, "SRC_TAR", <<>>)

\* the link download_files creates for hash h
LinkFor(h) == [name |-> ShortName(h), dest |-> ObjectStorePath(h)]
\* Path.symlink_to raises FileExistsError when the link path exists
LinkExists(n) == \E l \in links : l.name = n

CopyError(t) == [type |-> t, msg |-> ""]

\* the caller calls download_files(workdir) / upload_files(workdir): a new
\* generator, of which no line has run yet.  The caller either hands each
\* descriptor to the transport as it is yielded, or collects them all first.
CallEnumerate ==
    /\ gen \in {"none", "raised", "done", "closed"}
    /\ enumerations < MaxEnumerations
    /\ \E d \in {"upload", "download"} : direction' = d
    /\ \E c \in {"incremental", "collect"} : consumer' = c
    /\ gen' = "new"
    /\ gen_pos' = 0
    /\ gen_exc' = NoExc
    /\ yielded' = <<>>
    /\ transported' = <<>>
    /\ created' = <<>>
    /\ enumerations' = enumerations + 1
    /\ UNCHANGED <<signature, meta_exists, data_dir, links>>

GenRaises(t) ==
    /\ gen' = "raised"
    /\ gen_exc' = CopyError(t)
    /\ UNCHANGED <<gen_pos, yielded>>

GenYields(d, pos) ==
    /\ gen' = "suspended"
    /\ gen_pos' = pos
    /\ yielded' = Append(yielded, d)
    /\ UNCHANGED gen_exc

GenReturns ==
    /\ gen' = "done"
    /\ UNCHANGED <<gen_pos, yielded, gen_exc>>

\* the caller asks for the next descriptor
CallerReady == consumer = "collect" \/ transported = yielded

\* next() on the upload_files generator: run to the next yield, to the end of
\* the function, or to an exception
upload_files_next ==
    /\ direction = "upload"
    /\ gen \in {"new", "suspended"}
    /\ CallerReady
    /\ LET N == Len(signature)
           q == gen_pos + 1
       IN  IF gen_pos = N + 1
           THEN GenReturns
           ELSE IF q <= N
                THEN IF UnpackFails(signature[q])
                     THEN GenRaises("ValueError")
                     ELSE GenYields(UploadData(signature[q]), q)
                ELSE IF meta_exists
                     THEN GenYields(UploadMeta(ARCHIVED_SWDS_META_FNAME), q)
                     ELSE GenRaises("FileNotFoundError")
    /\ UNCHANGED <<signature, meta_exists, data_dir, links, direction, consumer,
                   transported, created, enumerations>>

\* next() on the download_files generator
download_files_next ==
    /\ direction = "download"
    /\ gen \in {"new", "suspended"}
    /\ CallerReady
    /\ data_dir' = TRUE
    /\ LET N == Len(signature)
           p == gen_pos
           q == gen_pos + 1
           linking == p \in 1..N
           link == LinkFor(HashOf(signature[p]))
           linked == /\ links' = links \cup {link}
                     /\ created' = Append(created, link.name)
       IN  IF p = N + 1
           THEN GenReturns /\ UNCHANGED <<links, created>>
           ELSE IF linking /\ LinkExists(link.name)
                THEN GenRaises("FileExistsError") /\ UNCHANGED <<links, created>>
                ELSE /\ IF linking THEN linked ELSE UNCHANGED <<links, created>>
                     /\ IF q <= N
                        THEN IF UnpackFails(signature[q])
                             THEN GenRaises("ValueError")
                             ELSE IF AlgoMismatch(signature[q])
                                  THEN GenRaises("NoSupportError")
                                  ELSE GenYields(DownloadData(signature[q]), q)
                        ELSE GenYields(DownloadMeta(ARCHIVED_SWDS_META_FNAME), q)
    /\ UNCHANGED <<signature, meta_exists, direction, consumer, transported,
                   enumerations>>

\* the caller hands the next descriptor it holds to the transport
Transfer ==
    /\ IF consumer = "incremental" THEN gen = "suspended" ELSE gen = "done"
    /\ Len(transported) < Len(yielded)
    /\ transported' = Append(transported, yielded[Len(transported) + 1])
    /\ UNCHANGED <<signature, meta_exists, data_dir, links, direction, consumer, gen,
                   gen_pos, gen_exc, yielded, created, enumerations>>

\* the caller stops iterating (the transport failed): the generator is closed
Abandon ==
    /\ gen = "suspended"
    /\ gen' = "closed"
    /\ UNCHANGED <<signature, meta_exists, data_dir, links, direction, consumer,
                   gen_pos, gen_exc, yielded, transported, created, enumerations>>

(***************************************************************************)
(* DatasetCopy: synchronizing the tabular rows before the blobs            *)
(***************************************************************************)
RowIds == 1..MaxRows
RowValues == {"v", "w"}
NoValue == "-"
NoRow == [id |-> 0, val |-> NoValue]
\* the rows a TabularDataset may hold: a value, or nothing, per row id
Stores == [RowIds -> RowValues \cup {NoValue}]
EmptyStore == [i \in RowIds |-> NoValue]
ChannelNames == {"local", "remote"}

SyncError(t) == [type |-> t, msg |-> ""]
SyncEvent(e, c, r) == [ev |-> e, ch |-> c, row |-> r]

\* TabularDataset.scan(): the rows of the table, in the order of their ids
RECURSIVE ScanFrom(_, _)
ScanFrom(store, i) ==
    IF i > MaxRows
    THEN <<>>
    ELSE (IF store[i] = NoValue THEN <<>> ELSE << [id |-> i, val |-> store[i]] >>)
         \o ScanFrom(store, i + 1)

ScanSeq(store) == ScanFrom(store, 1)

\* TabularDataset.put(row): the row replaces what the table holds under its id
Upsert(store, r) == [store EXCEPT ![r.id] = r.val]

\* TabularDataset.__exit__: the table is closed
Close(c, closed, ch) ==
    [chan |-> [c EXCEPT ![ch] = "closed"],
     closes |-> [closed EXCEPT ![ch] = @ + 1]]

\* for row in local.scan(): remote.put(row)  /  for row in remote.scan(): local.put(row)
SourceOfSwapped(d) == IF d = "upload" THEN "remote" ELSE "local"
SourceOf(d) == IF d = "upload" THEN "local" ELSE "remote"

DestinationOf(d) == IF d = "upload" THEN "remote" ELSE "local"

\* the for loop is over when the scan has produced its last row
LoopExhaustedEarly(n, s) == n >= 1 \/ n = Len(s)
LoopExhausted(n, s) == n = Len(s)

\* the with statement releases, in reverse order, the items it has entered
ReleasedOnlyLast(c) ==
    IF c["remote"] = "open" THEN <<"remote">> ELSE <<>>
Released(c) ==
    (IF c["remote"] = "open" THEN <<"remote">> ELSE <<>>)
    \o (IF c["local"] = "open" THEN <<"local">> ELSE <<>>)

\* the statement after the with block runs unless an exception left the block
AfterWithAlways(e) == "super"
AfterWith(e) == IF e = NoExc THEN "super" ELSE "raised"

SyncEnter(d) ==
    /\ sync_pc = "idle"
    /\ sync_dir' = d
    /\ sync_pc' = "open local"
    /\ UNCHANGED <<rows, rows0, chan, closes, cursor, row, sync_exc, sync_trace,
                   planning>>

\* DatasetCopy._do_ubd_blobs is called
_do_ubd_blobs == SyncEnter("upload")

\* DatasetCopy._do_download_bundle_dir is called
_do_download_bundle_dir == SyncEnter("download")

\* with TabularDataset(...) as local: the first item is opened, or fails to
OpenLocal ==
    /\ sync_pc = "open local"
    /\ \/ /\ chan' = [chan EXCEPT !["local"] = "open"]
          /\ sync_trace' = Append(sync_trace, SyncEvent("open", "local", NoRow))
          /\ sync_pc' = "open remote"
          /\ UNCHANGED sync_exc
       \/ /\ sync_exc' = SyncError("OpenError")
          /\ sync_pc' = "exit"
          /\ UNCHANGED <<chan, sync_trace>>
    /\ UNCHANGED <<sync_dir, rows, rows0, closes, cursor, row, planning>>

\* ..., TabularDataset(...) as remote: the second item is opened, or fails to
OpenRemote ==
    /\ sync_pc = "open remote"
    /\ \/ /\ chan' = [chan EXCEPT !["remote"] = "open"]
          /\ sync_trace' = Append(sync_trace, SyncEvent("open", "remote", NoRow))
          /\ sync_pc' = "scan"
          /\ UNCHANGED sync_exc
       \/ /\ sync_exc' = SyncError("OpenError")
          /\ sync_pc' = "exit"
          /\ UNCHANGED <<chan, sync_trace>>
    /\ UNCHANGED <<sync_dir, rows, rows0, closes, cursor, row, planning>>

\* the for statement asks the scan for its next row
ScanNext ==
    /\ sync_pc = "scan"
    /\ LET src == SourceOf(sync_dir)
           s == ScanSeq(rows[src])
       IN  IF LoopExhausted(cursor, s)
           THEN /\ sync_pc' = "exit"
                /\ UNCHANGED <<cursor, row, sync_exc, sync_trace>>
           ELSE \/ /\ cursor' = cursor + 1
                   /\ row' = s[cursor + 1]
                   /\ sync_trace' =
                          Append(sync_trace, SyncEvent("scan", src, s[cursor + 1]))
                   /\ sync_pc' = "put"
                   /\ UNCHANGED sync_exc
                \/ /\ sync_exc' = SyncError("ScanError")
                   /\ sync_pc' = "exit"
                   /\ UNCHANGED <<cursor, row, sync_trace>>
    /\ UNCHANGED <<sync_dir, rows, rows0, chan, closes, planning>>

\* the loop body: the row is put into the destination, or the put fails
Put ==
    /\ sync_pc = "put"
    /\ LET dst == DestinationOf(sync_dir)
       IN  \/ /\ rows' = [rows EXCEPT ![dst] = Upsert(@, row)]
              /\ sync_trace' = Append(sync_trace, SyncEvent("put", dst, row))
              /\ sync_pc' = "scan"
              /\ UNCHANGED sync_exc
           \/ /\ sync_exc' = SyncError("PutError")
              /\ sync_pc' = "exit"
              /\ UNCHANGED <<rows, sync_trace>>
    /\ row' = NoRow
    /\ UNCHANGED <<sync_dir, rows0, chan, closes, cursor, planning>>

RECURSIVE CloseAll(_, _, _)
CloseAll(c, closed, chs) ==
    IF chs = <<>>
    THEN [chan |-> c, closes |-> closed]
    ELSE LET one == Close(c, closed, Head(chs))
         IN  CloseAll(one.chan, one.closes, Tail(chs))

CloseEvents(chs) == [i \in 1..Len(chs) |-> SyncEvent("close", chs[i], NoRow)]

\* control leaves the with block, by its end or by an exception
WithExit ==
    /\ sync_pc = "exit"
    /\ LET chs == Released(chan)
           after == CloseAll(chan, closes, chs)
       IN  /\ chan' = after.chan
           /\ closes' = after.closes
           /\ sync_trace' = sync_trace \o CloseEvents(chs)
    /\ sync_pc' = AfterWith(sync_exc)
    /\ UNCHANGED <<sync_dir, rows, rows0, cursor, row, sync_exc, planning>>

\* super()._do_ubd_blobs(...) / super()._do_download_bundle_dir(progress):
\* the files are enumerated and handed to the transport
SuperCall ==
    /\ sync_pc = "super"
    /\ planning' = TRUE
    /\ sync_trace' = Append(sync_trace, SyncEvent("super", "", NoRow))
    /\ sync_pc' = "done"
    /\ UNCHANGED <<sync_dir, rows, rows0, chan, closes, cursor, row, sync_exc>>

(***************************************************************************)
(* Specification of the executor                                           *)
(***************************************************************************)
ExecInit ==
    /\ obj = "none"
    /\ init_error = NoExc
    /\ darwin_arm = FALSE
    /\ use_docker = FALSE
    /\ runtime_uri = ""
    /\ gencmd = FALSE
    /\ version = EmptyVersion
    /\ workdir = CWD
    /\ manifest = NoManifest
    /\ dirs = {CWD}
    /\ status_file = [p \in Paths |-> NoMarker]
    /\ manifest_file = [p \in Paths |-> NoManifest]
    /\ pc = "idle"
    /\ args = [typ |-> TYPE_ALL, step |-> "", task_index |-> 0]
    /\ op_idx = 1
    /\ exc = NoExc
    /\ trace = <<>>
    /\ run_writes = {}
    /\ outcome = NoOutcome
    /\ runs = 0
    /\ cmd = NoCmd
    /\ calls = <<>>

\* no bundle is being copied
CopyIdle ==
    /\ signature = <<>>
    /\ meta_exists = TRUE
    /\ data_dir = FALSE
    /\ links = {}
    /\ direction = "upload"
    /\ consumer = "incremental"
    /\ gen = "none"
    /\ gen_pos = 0
    /\ gen_exc = NoExc
    /\ yielded = <<>>
    /\ transported = <<>>
    /\ created = <<>>
    /\ enumerations = 0

\* no rows are being synchronized
SyncIdle ==
    /\ sync_dir = "upload"
    /\ rows = [c \in ChannelNames |-> EmptyStore]
    /\ rows0 = rows
    /\ chan = [c \in ChannelNames |-> "unopened"]
    /\ closes = [c \in ChannelNames |-> 0]
    /\ cursor = 0
    /\ row = NoRow
    /\ sync_exc = NoExc
    /\ sync_trace = <<>>
    /\ planning = FALSE
    /\ sync_pc = "idle"

Init == ExecInit /\ CopyIdle /\ SyncIdle

Next ==
    \/ Construct /\ UNCHANGED <<cntrVars, copyVars, syncVars>>
    \/ RunBegin /\ UNCHANGED <<copyVars, syncVars>>
    \/ _prepare_workdir /\ UNCHANGED <<cntrVars, copyVars, syncVars>>
    \/ _extract_swmp /\ UNCHANGED <<cntrVars, copyVars, syncVars>>
    \/ _extract_swrt /\ UNCHANGED <<cntrVars, copyVars, syncVars>>
    \/ _do_run_eval_job /\ UNCHANGED <<copyVars, syncVars>>
    \/ ExceptHandler /\ UNCHANGED <<cntrVars, copyVars, syncVars>>
    \/ _render_manifest /\ UNCHANGED <<cntrVars, copyVars, syncVars>>
    \/ RunExit /\ UNCHANGED <<cntrVars, copyVars, syncVars>>

Spec == Init /\ [][Next]_vars

(***************************************************************************)
(* Specification of the dataset copy: a bundle in a fresh workdir          *)
(***************************************************************************)
InitCopy ==
    /\ ExecInit
    /\ SyncIdle
    /\ signature \in SignatureLists
    /\ meta_exists \in BOOLEAN
    /\ data_dir = FALSE
    /\ links = {}
    /\ direction = "upload"
    /\ consumer = "incremental"
    /\ gen = "none"
    /\ gen_pos = 0
    /\ gen_exc = NoExc
    /\ yielded = <<>>
    /\ transported = <<>>
    /\ created = <<>>
    /\ enumerations = 0

NextCopy ==
    \/ CallEnumerate /\ UNCHANGED <<execVars, syncVars>>
    \/ upload_files_next /\ UNCHANGED <<execVars, syncVars>>
    \/ download_files_next /\ UNCHANGED <<execVars, syncVars>>
    \/ Transfer /\ UNCHANGED <<execVars, syncVars>>
    \/ Abandon /\ UNCHANGED <<execVars, syncVars>>

SpecCopy == InitCopy /\ [][NextCopy]_vars

(***************************************************************************)
(* Specification of the row sync: one sync between two tables              *)
(***************************************************************************)
InitSync ==
    /\ ExecInit
    /\ CopyIdle
    /\ sync_dir = "upload"
    /\ rows \in [ChannelNames -> Stores]
    /\ rows0 = rows
    /\ chan = [c \in ChannelNames |-> "unopened"]
    /\ closes = [c \in ChannelNames |-> 0]
    /\ cursor = 0
    /\ row = NoRow
    /\ sync_exc = NoExc
    /\ sync_trace = <<>>
    /\ planning = FALSE
    /\ sync_pc = "idle"

NextSync ==
    \/ _do_ubd_blobs /\ UNCHANGED <<execVars, copyVars>>
    \/ _do_download_bundle_dir /\ UNCHANGED <<execVars, copyVars>>
    \/ OpenLocal /\ UNCHANGED <<execVars, copyVars>>
    \/ OpenRemote /\ UNCHANGED <<execVars, copyVars>>
    \/ ScanNext /\ UNCHANGED <<execVars, copyVars>>
    \/ Put /\ UNCHANGED <<execVars, copyVars>>
    \/ WithExit /\ UNCHANGED <<execVars, copyVars>>
    \/ SuperCall /\ UNCHANGED <<execVars, copyVars>>

SpecSync == InitSync /\ [][NextSync]_vars


(***************************************************************************)
(* Vocabulary of the properties                                            *)
(***************************************************************************)
Range(s) == {s[i] : i \in 1..Len(s)}
IsStage(e) == e \in StageNames
StagesOf(t) == SelectSeq(t, IsStage)
IsRender(e) == e = "render"
RenderCount(t) == Len(SelectSeq(t, IsRender))
IsPrefix(a, b) == Len(a) <= Len(b) /\ a = SubSeq(b, 1, Len(a))
Position(t, e) == CHOOSE i \in 1..Len(t) : t[i] = e

\* run() has been called and has left (returned or raised)
RunOver == pc = "idle" /\ runs > 0
\* a stage of the last run() raised
StageRaised == "raised" \in Range(trace)
\* the manifest the run persisted, as read back from <workdir>/_manifest.yaml
Persisted == manifest_file[workdir]
StrictOrder ==
    <<"prepare workdir", "extract model", "extract runtime", "run eval job">>
AllStagesCompleted == RunOver /\ StagesOf(trace) = StrictOrder /\ ~StageRaised
InvalidContainerConfig == use_docker /\ (runtime_uri = "" \/ darwin_arm)

(***************************************************************************)
(* C1: if a stage of run() raises, the manifest the run persists has       *)
(* status FAILED and carries the exception's message in error_message.     *)
(* Stated as the claim; the code violates it.                              *)
(***************************************************************************)
C1_StageFailurePersistsFailed ==
    (RunOver /\ StageRaised) =>
        /\ Persisted # NoManifest
        /\ IF Persisted = NoManifest THEN FALSE
           ELSE /\ Persisted.status = STATUS_FAILED
                /\ Persisted.error_message = trace[Position(trace, "raised") + 1]

(***************************************************************************)
(* C2 (as amended): after a run whose four stages all completed, the       *)
(* persisted status is SUCCESS iff the status marker is missing or its     *)
(* trimmed content is the success token, and FAILED iff the marker exists  *)
(* with any other content.                                                 *)
(***************************************************************************)
C2_StatusFromMarkerAmended ==
    AllStagesCompleted =>
        /\ Persisted # NoManifest
        /\ IF Persisted = NoManifest THEN FALSE
           ELSE IF ~status_file[workdir].exists
                THEN Persisted.status = STATUS_SUCCESS
                ELSE IF Strip(status_file[workdir].content) = SuccessChars
                     THEN Persisted.status = STATUS_SUCCESS
                     ELSE Persisted.status = STATUS_FAILED

\* C2 as originally stated: a missing marker gives FAILED
C2_StatusFromMarkerOriginal ==
    AllStagesCompleted =>
        /\ Persisted # NoManifest
        /\ IF Persisted = NoManifest THEN FALSE
           ELSE IF status_file[workdir].exists
                   /\ Strip(status_file[workdir].content) = SuccessChars
                THEN Persisted.status = STATUS_SUCCESS
                ELSE Persisted.status = STATUS_FAILED

\* all four stages completed, a whitespace-padded success marker: SUCCESS
C2_Witness ==
    /\ AllStagesCompleted
    /\ status_file[workdir] = Marker(<<" ">> \o SuccessChars \o <<"\n">>)
    /\ Persisted.status = STATUS_SUCCESS

(***************************************************************************)
(* C3: finalization runs on every exit of run(): the manifest is rendered  *)
(* and written exactly once per call, after the last stage activity and    *)
(* before run() returns or the exception reaches the caller.               *)
(***************************************************************************)
C3_FinalizeOncePerRun ==
    /\ pc \in {"ops", "except", "finally"} => RenderCount(trace) = 0
    /\ pc = "exit" =>
          /\ RenderCount(trace) = 1
          /\ trace[Len(trace)] = "render"
          /\ ManifestWrite(workdir) \in run_writes
          /\ manifest_file[workdir] = manifest
    /\ RunOver =>
          /\ RenderCount(trace) = 1
          /\ Len(trace) >= 2
          /\ trace[Len(trace) - 1] = "render"
          /\ trace[Len(trace)] \in {"return", "raise"}
          /\ ManifestWrite(workdir) \in run_writes

\* the precondition check inside run() raised, and the manifest was written
C3_Witness ==
    /\ RunOver
    /\ StagesOf(trace) = <<>>
    /\ outcome.kind = "raised"
    /\ RenderCount(trace) = 1

(***************************************************************************)
(* C4: once the manifest status is SUCCESS or FAILED it never changes      *)
(* again and never returns to START or RUNNING.  Stated as the claim; the  *)
(* code violates it.                                                       *)
(***************************************************************************)
C4_TerminalStatusIsFinal ==
    [][manifest.status \in {STATUS_SUCCESS, STATUS_FAILED}
         => manifest'.status = manifest.status]_vars

(***************************************************************************)
(* C5: whenever a stage raises inside run(), the same exception reaches    *)
(* the caller (run() returns no version), and only after the manifest has  *)
(* been written.                                                           *)
(***************************************************************************)
C5_RecordThenPropagate ==
    /\ (StageRaised /\ pc \in {"except", "finally", "exit"}) =>
          exc.msg = trace[Position(trace, "raised") + 1]
    /\ (RunOver /\ StageRaised) =>
          /\ outcome.kind = "raised"
          /\ outcome.exc.type = "Exception"
          /\ outcome.exc.msg = trace[Position(trace, "raised") + 1]
          /\ trace[Len(trace)] = "raise"
          /\ trace[Len(trace) - 1] = "render"
          /\ manifest_file[workdir] # NoManifest

\* the run-eval-job stage raised and the caller saw that exception
C5_Witness ==
    /\ RunOver
    /\ StageRaised
    /\ StagesOf(trace) = StrictOrder
    /\ outcome.kind = "raised"
    /\ outcome.exc.msg = "boom"

(***************************************************************************)
(* C6: the manifest of a run is always persisted inside the job's working  *)
(* directory <project>/evaluation/<version prefix>/<version>, also when    *)
(* the run fails before the prepare-workdir stage.  Stated as the claim;   *)
(* the code violates it.                                                   *)
(***************************************************************************)
C6_ManifestInJobDir ==
    RunOver =>
        /\ ManifestWrite(JobDir(version)) \in run_writes
        /\ \A w \in run_writes : w.kind = "manifest" => w.path = JobDir(version)

(***************************************************************************)
(* C7: run() executes the four stages in the strict order prepare workdir, *)
(* extract model, extract runtime, run eval job; each at most once, a      *)
(* stage only after the earlier ones completed, none after a stage raised. *)
(***************************************************************************)
C7_StrictStageOrder ==
    /\ IsPrefix(StagesOf(trace), StrictOrder)
    /\ StageRaised =>
          \A i \in 1..Len(trace) :
              i > Position(trace, "raised") => ~IsStage(trace[i])
    /\ pc = "ops" => op_idx = Len(StagesOf(trace)) + 1 /\ ~StageRaised

\* the third stage raised after the first two completed: the fourth never ran
C7_Witness ==
    /\ RunOver
    /\ StageRaised
    /\ StagesOf(trace) = SubSeq(StrictOrder, 1, 3)

(***************************************************************************)
(* C8: with the container backend, a missing runtime reference or the      *)
(* Darwin/Apple-silicon platform is rejected at construction: never at     *)
(* stage-run time, no stage executes, no working directory is created and  *)
(* no manifest is written.                                                 *)
(***************************************************************************)
C8_RejectedAtConstruction ==
    /\ obj # "none" => (obj = "rejected" <=> InvalidContainerConfig)
    /\ obj = "rejected" =>
          /\ init_error.type \in {"FieldTypeOrValueError", "NoSupportError"}
          /\ pc = "idle"
          /\ runs = 0
          /\ trace = <<>>
          /\ run_writes = {}
          /\ dirs = {CWD}
          /\ \A p \in Paths : manifest_file[p] = NoManifest
    /\ (pc # "idle" \/ runs > 0) => ~InvalidContainerConfig

\* container backend on Darwin/Apple silicon with a runtime: rejected
C8_Witness ==
    /\ obj = "rejected"
    /\ use_docker /\ runtime_uri # "" /\ darwin_arm
    /\ init_error.type = "NoSupportError"

(***************************************************************************)
(* C9 (as amended): run() with a task kind other than ALL and an empty     *)
(* step raises a configuration error before any stage executes; the only   *)
(* thing that run writes on the filesystem is the manifest that            *)
(* finalization writes into the executor's current workdir.                *)
(***************************************************************************)
EmptyStepRun == runs > 0 /\ args.typ # TYPE_ALL /\ args.step = ""

C9_EmptyStepAmended ==
    EmptyStepRun =>
        /\ StagesOf(trace) = <<>>
        /\ run_writes \subseteq {ManifestWrite(workdir)}
        /\ pc \in {"except", "finally", "exit"} =>
              exc = [type |-> "FieldTypeOrValueError", msg |-> "step is none"]
        /\ pc \notin {"ops"}
        /\ RunOver =>
              /\ outcome.kind = "raised"
              /\ outcome.exc =
                   [type |-> "FieldTypeOrValueError", msg |-> "step is none"]
              /\ run_writes = {ManifestWrite(workdir)}

\* C9 as originally stated: nothing is written on the filesystem by that run
C9_EmptyStepOriginal ==
    (EmptyStepRun /\ RunOver) =>
        /\ outcome.kind = "raised"
        /\ StagesOf(trace) = <<>>
        /\ run_writes = {}

\* a SINGLE run with an empty step has raised; its manifest is in the cwd
C9_Witness ==
    /\ EmptyStepRun
    /\ RunOver
    /\ args.typ = TYPE_SINGLE
    /\ outcome.kind = "raised"
    /\ run_writes = {ManifestWrite(CWD)}

(***************************************************************************)
(* C10 (as amended): descriptor planning is prefix-wise, not all-or-none.  *)
(* When download_files fails while processing an entry, what it produced   *)
(* before stays: the descriptors of the n entries before the failure have  *)
(* been yielded (a caller that transfers as it reads has handed them to    *)
(* the transport), and this enumeration has created the links of the first *)
(* n entries (n - 1 when it is the link of entry n that cannot be          *)
(* created); no descriptor and no link exists for a later entry nor for    *)
(* the metadata archive.  upload_files likewise has yielded a prefix of    *)
(* its descriptors and creates no link.  An enumeration that does not fail *)
(* plans every descriptor of the bundle.                                   *)
(***************************************************************************)
C10_PrefixPlanned ==
    LET N == Len(signature)
        n == Len(yielded)
        m == Len(created)
    IN  /\ IsPrefix(transported, yielded)
        /\ (gen = "raised" /\ consumer = "incremental") => transported = yielded
        /\ (gen = "raised" /\ direction = "download") =>
              /\ n <= N
              /\ \A i \in 1..n :
                    /\ yielded[i].file_type = "DATA"
                    /\ yielded[i].signature = HashOf(signature[i])
                    /\ yielded[i].name = Take(HashOf(signature[i]), short_sign_cnt)
              /\ \A i \in 1..m :
                    created[i] = Take(HashOf(signature[i]), short_sign_cnt)
              /\ gen_exc.type \in {"NoSupportError", "ValueError", "FileExistsError"}
              /\ gen_exc.type = "NoSupportError" =>
                    m = n /\ n < N /\ AlgoOf(signature[n + 1]) # object_hash_algo
              /\ gen_exc.type = "ValueError" =>
                    m = n /\ n < N /\ Len(Split(signature[n + 1], ":")) # 3
              /\ gen_exc.type = "FileExistsError" => m = n - 1
        /\ (gen = "raised" /\ direction = "upload") =>
              /\ n <= N
              /\ m = 0
              /\ \A i \in 1..n :
                    /\ yielded[i].file_type = "DATA"
                    /\ yielded[i].signature = HashOf(signature[i])
        /\ gen = "done" =>
              /\ n = N + 1
              /\ \A i \in 1..N :
                    /\ yielded[i].file_type = "DATA"
                    /\ yielded[i].signature = HashOf(signature[i])
              /\ yielded[N + 1].file_type = "SRC_TAR"
              /\ direction = "download" => m = N

\* C10 as originally stated: a failed enumeration has handed no descriptor to
\* the transport and has created no link
C10_AllOrNoneOriginal ==
    /\ gen = "raised" => (transported = <<>> /\ created = <<>>)
    /\ gen = "done" => Len(yielded) = Len(signature) + 1

\* a hash-algorithm mismatch at the third entry, after two entries were
\* yielded, transported and linked
C10_Witness ==
    /\ gen = "raised"
    /\ direction = "download"
    /\ gen_exc.type = "NoSupportError"
    /\ consumer = "incremental"
    /\ Len(signature) = 3
    /\ Len(transported) = 2
    /\ Len(created) = 2

(***************************************************************************)
(* Vocabulary of the row sync properties                                   *)
(***************************************************************************)
EventsOf(e) == SelectSeq(sync_trace, LAMBDA x : x.ev = e)
RowsOf(e) == [i \in 1..Len(EventsOf(e)) |-> EventsOf(e)[i].row]
Scanned == RowsOf("scan")
Puts == RowsOf("put")
\* the table the direction reads from, and the one it writes to
ReadSide == IF sync_dir = "upload" THEN "local" ELSE "remote"
WriteSide == IF sync_dir = "upload" THEN "remote" ELSE "local"
ClosedCount(c) == Len(SelectSeq(sync_trace, LAMBDA x : x.ev = "close" /\ x.ch = c))
SyncRaised == sync_pc = "raised"
RECURSIVE UpsertAll(_, _)
UpsertAll(store, rs) ==
    IF rs = <<>> THEN store ELSE UpsertAll(Upsert(store, Head(rs)), Tail(rs))

(***************************************************************************)
(* C11: in both directions the row sync is complete before the inherited   *)
(* file enumeration/transfer step starts: when that step has started,      *)
(* every row the source table's scan holds has been scanned and put into   *)
(* the destination table, in that order, both tables have been closed, and *)
(* the start of the step is the last thing that happened.                  *)
(***************************************************************************)
C11_RowsBeforeBlobs ==
    /\ planning =>
          /\ Scanned = ScanSeq(rows0[ReadSide])
          /\ Puts = Scanned
          /\ rows[WriteSide] = UpsertAll(rows0[WriteSide], Scanned)
          /\ \A c \in ChannelNames : chan[c] = "closed"
          /\ sync_exc = NoExc
    /\ \A i \in 1..Len(sync_trace) :
          sync_trace[i].ev = "super" => (i = Len(sync_trace) /\ planning)
    /\ sync_pc \in {"super", "done"} =>
          \A c \in ChannelNames : chan[c] = "closed"

\* a download whose two rows were synchronized has started the inherited step
C11_Witness ==
    /\ planning
    /\ sync_dir = "download"
    /\ Len(Puts) = 2
    /\ sync_trace[Len(sync_trace)].ev = "super"
    /\ sync_trace[Len(sync_trace) - 1].ev = "close"

Opened(c) == \E i \in 1..Len(sync_trace) :
                 sync_trace[i].ev = "open" /\ sync_trace[i].ch = c
SyncOver == sync_pc \in {"raised", "super", "done"}

(***************************************************************************)
(* C12: both tables are released on every exit path of the row sync: once  *)
(* control has left the with block - after the loop ended normally, after  *)
(* the scan raised, after a put raised, or after opening the second table  *)
(* failed - every table that was opened has been closed exactly once, and  *)
(* no table is ever closed twice or closed without having been opened.     *)
(***************************************************************************)
C12_ReleasedOnEveryExit ==
    /\ \A c \in ChannelNames :
          /\ closes[c] <= 1
          /\ closes[c] = ClosedCount(c)
          /\ closes[c] = 1 => Opened(c)
          /\ chan[c] = "closed" <=> closes[c] = 1
    /\ SyncOver =>
          \A c \in ChannelNames :
              /\ Opened(c) => (chan[c] = "closed" /\ closes[c] = 1)
              /\ ~Opened(c) => (chan[c] = "unopened" /\ closes[c] = 0)

\* opening the second table failed after the first was opened, and the
\* first has been closed
C12_Witness ==
    /\ SyncRaised
    /\ sync_exc = SyncError("OpenError")
    /\ Opened("local")
    /\ ~Opened("remote")
    /\ closes["local"] = 1
    /\ chan["remote"] = "unopened"

\* a put raised and control has left the with block
PutFailed == SyncOver /\ sync_exc = SyncError("PutError")

(***************************************************************************)
(* C13 (as amended): a failing put aborts the row sync: the exception      *)
(* propagates and the inherited enumeration/transfer step is not started.  *)
(* Nothing is rolled back: the destination table holds what it held before *)
(* the sync with the rows put before the failing one upserted - a proper   *)
(* prefix of the scan - and the source table is unchanged.                 *)
(***************************************************************************)
C13_PutFailureAborts ==
    PutFailed =>
        /\ SyncRaised
        /\ ~planning
        /\ \A i \in 1..Len(sync_trace) : sync_trace[i].ev # "super"
        /\ Len(Puts) < Len(ScanSeq(rows0[ReadSide]))
        /\ Puts = SubSeq(ScanSeq(rows0[ReadSide]), 1, Len(Puts))
        /\ Len(Scanned) = Len(Puts) + 1
        /\ rows[WriteSide] = UpsertAll(rows0[WriteSide], Puts)
        /\ rows[ReadSide] = rows0[ReadSide]

(***************************************************************************)
(* C13 (as stated): after a failing put the exception propagates, the      *)
(* inherited step is not started, and the destination table holds either   *)
(* all the rows of this sync or exactly what it held before.               *)
(***************************************************************************)
C13_NoPartialMergeOriginal ==
    PutFailed =>
        /\ SyncRaised
        /\ ~planning
        /\ \/ rows[WriteSide] = rows0[WriteSide]
           \/ rows[WriteSide] =
                  UpsertAll(rows0[WriteSide], ScanSeq(rows0[ReadSide]))

\* the second put failed: the first row is in the destination, which held
\* neither row before
C13_Witness ==
    /\ PutFailed
    /\ Len(Puts) = 1
    /\ rows0[WriteSide] = EmptyStore
    /\ rows[WriteSide] # rows0[WriteSide]
    /\ ~planning

\* the scan and put steps of the sync, in the order they happened
Pipeline == SelectSeq(sync_trace, LAMBDA x : x.ev \in {"scan", "put"})

(***************************************************************************)
(* C14: row replication is a strictly ordered pipeline with one row in     *)
(* flight: the steps alternate scan, put, scan, put, ..., each put taking  *)
(* the row the scan before it produced, so the rows put are the rows       *)
(* scanned, in scan order, and row i is put before row i+1 is produced.    *)
(* An upload scans the local table and puts into the remote one, a         *)
(* download scans the remote table and puts into the local one; the        *)
(* scanned table is not written.                                           *)
(***************************************************************************)
C14_OneRowInFlight ==
    /\ \A i \in 1..Len(Pipeline) :
          IF i % 2 = 1
          THEN /\ Pipeline[i].ev = "scan"
               /\ Pipeline[i].ch = (IF sync_dir = "upload" THEN "local" ELSE "remote")
          ELSE /\ Pipeline[i].ev = "put"
               /\ Pipeline[i].ch = (IF sync_dir = "upload" THEN "remote" ELSE "local")
               /\ Pipeline[i].row = Pipeline[i - 1].row
    /\ Len(Scanned) - Len(Puts) \in {0, 1}
    /\ Puts = SubSeq(Scanned, 1, Len(Puts))
    /\ Scanned = SubSeq(ScanSeq(rows0[ReadSide]), 1, Len(Scanned))
    /\ (row # NoRow) <=> (Len(Scanned) = Len(Puts) + 1 /\ sync_pc = "put")
    /\ row # NoRow => row = Scanned[Len(Scanned)]
    /\ rows[ReadSide] = rows0[ReadSide]
    /\ rows[WriteSide] = UpsertAll(rows0[WriteSide], Puts)

\* an upload has put two rows into the remote table, which differs from
\* what it held, and the local table is as it was
C14_Witness ==
    /\ sync_dir = "upload"
    /\ sync_pc = "done"
    /\ Len(Puts) = 2
    /\ Puts[1] # Puts[2]
    /\ rows["remote"] # rows0["remote"]
    /\ rows["remote"] = rows0["local"]

(***************************************************************************)
(* Vocabulary of the enumeration properties                                *)
(***************************************************************************)
WellFormed(k) == Len(Split(k, ":")) = 3
\* a well-formed entry whose algorithm is not the store's
Mismatched(k) == WellFormed(k) /\ Split(k, ":")[2] # <<"blake2b">>
Downloading == direction = "download" /\ gen # "none"
Uploading == direction = "upload" /\ gen # "none"

(***************************************************************************)
(* C15: while download_files is enumerated, an entry whose hash algorithm  *)
(* is not the store's is never skipped: no descriptor and no link is       *)
(* produced for it or for any entry after it, the metadata archive         *)
(* included, the enumeration never completes, and once the generator has   *)
(* dealt with the entries before it, it has raised NoSupportError.         *)
(***************************************************************************)
C15_MismatchIsFatal ==
    Downloading =>
        \A k \in 1..Len(signature) :
            Mismatched(signature[k]) =>
                /\ Len(yielded) < k
                /\ Len(created) < k
                /\ gen # "done"
                /\ (Len(yielded) = k - 1 /\ Len(created) = k - 1 /\ gen # "new")
                       => (gen = "raised" /\ gen_exc = CopyError("NoSupportError"))

\* the second of three entries is mismatched: one descriptor and one link,
\* then NoSupportError
C15_Witness ==
    /\ Downloading
    /\ Len(signature) = 3
    /\ Mismatched(signature[2])
    /\ ~Mismatched(signature[3]) /\ WellFormed(signature[3])
    /\ gen = "raised"
    /\ gen_exc = CopyError("NoSupportError")
    /\ Len(yielded) = 1
    /\ created = <<yielded[1].name>>

(***************************************************************************)
(* C16: upload_files yields, for a manifest with N signature entries, N    *)
(* DATA descriptors, the i-th carrying the size and the hash of the i-th   *)
(* entry (manifest order, duplicates kept), and then one SRC_TAR           *)
(* descriptor with an empty signature for the metadata archive: what has   *)
(* been yielded is always a prefix of that sequence, a completed           *)
(* enumeration has yielded all N + 1, and the enumeration fails only on a  *)
(* malformed entry or a missing archive.                                   *)
(***************************************************************************)
C16_UploadDescriptors ==
    Uploading =>
        LET N == Len(signature)
        IN  /\ Len(yielded) <= N + 1
            /\ \A i \in 1..Len(yielded) :
                  IF i <= N
                  THEN /\ yielded[i].file_type = "DATA"
                       /\ yielded[i].size = Split(signature[i], ":")[1]
                       /\ yielded[i].signature = Split(signature[i], ":")[3]
                  ELSE /\ yielded[i].file_type = "SRC_TAR"
                       /\ yielded[i].signature = <<>>
                       /\ yielded[i].name = <<"archive.swds_meta">>
            /\ gen = "done" => Len(yielded) = N + 1
            /\ gen = "raised" =>
                  \/ \E k \in 1..N : ~WellFormed(signature[k])
                  \/ ~meta_exists

\* a completed upload enumeration of three entries, the first and the last
\* the same
C16_Witness ==
    /\ Uploading
    /\ gen = "done"
    /\ Len(signature) = 3
    /\ signature[1] = signature[3]
    /\ signature[1] # signature[2]
    /\ Len(yielded) = 4
    /\ yielded[1] = yielded[3]
    /\ yielded[4].file_type = "SRC_TAR"

\* the first n elements of s, written out
Truncated(s, n) == [i \in 1..(IF Len(s) < n THEN Len(s) ELSE n) |-> s[i]]

(***************************************************************************)
(* C17: in both directions the name of every DATA descriptor yielded is    *)
(* its signature truncated to short_sign_cnt, and it is the name the other *)
(* direction derives for the same signature entry: the short names of a    *)
(* download are those of the upload of the same manifest, position by      *)
(* position.                                                               *)
(***************************************************************************)
C17_ShortNamesRoundTrip ==
    gen # "none" =>
        \A i \in 1..Len(yielded) :
            yielded[i].file_type = "DATA" =>
                /\ i <= Len(signature)
                /\ yielded[i].signature = Split(signature[i], ":")[3]
                /\ yielded[i].name = Truncated(yielded[i].signature, short_sign_cnt)
                /\ yielded[i].name = UploadData(signature[i]).name
                /\ yielded[i].name = DownloadData(signature[i]).name

\* a download has yielded the descriptors of two entries with different
\* hashes, each named by its truncated hash
C17_Witness ==
    /\ Downloading
    /\ Len(yielded) >= 2
    /\ yielded[1].file_type = "DATA"
    /\ yielded[2].file_type = "DATA"
    /\ yielded[1].name # yielded[2].name
    /\ Len(yielded[1].name) <= short_sign_cnt
    /\ yielded[2].name = Truncated(yielded[2].signature, short_sign_cnt)

\* every entry is well-formed, uses the store's algorithm, and no two
\* different hashes share a short name
CleanManifest ==
    /\ \A k \in 1..Len(signature) :
          WellFormed(signature[k]) /\ ~Mismatched(signature[k])
    /\ \A j, k \in 1..Len(signature) :
          LET hj == Split(signature[j], ":")[3]
              hk == Split(signature[k], ":")[3]
          IN  Truncated(hj, short_sign_cnt) = Truncated(hk, short_sign_cnt)
                  => hj = hk
LinksOf(h) == {l \in links : l.name = Truncated(h, short_sign_cnt)}

(***************************************************************************)
(* C19: download_files can be enumerated again: for a manifest whose       *)
(* entries are all valid, an enumeration in the same workdir - the first   *)
(* one or a later one, with or without a hash that occurs twice - never    *)
(* raises, and when it is complete every signature entry has exactly one   *)
(* link, named by its short hash, to its destination in the object store.  *)
(***************************************************************************)
C19_RestartableDownload ==
    (Downloading /\ CleanManifest) =>
        /\ gen # "raised"
        /\ gen = "done" =>
              \A k \in 1..Len(signature) :
                  LET h == Split(signature[k], ":")[3]
                  IN  LinksOf(h) = {[name |-> Truncated(h, short_sign_cnt),
                                     dest |-> [base |-> "objectstore",
                                               parts |-> <<h>>]]}

(***************************************************************************)
(* C20: the manifest a run() call persists holds a version field equal to  *)
(* the version the call returns, whether __init__ generated the version or *)
(* the caller supplied it.                                                 *)
(***************************************************************************)
C20_PersistedVersionIsReturned ==
    (RunOver /\ outcome.kind = "returned") =>
        /\ Persisted # NoManifest
        /\ Persisted.version # NoVersion
        /\ Persisted.version = outcome.version

(***************************************************************************)
(* Vocabulary of the container command property                            *)
(***************************************************************************)
HasWord(c, w) == \E i \in 1..Len(c) : c[i] = w
\* the word w is passed as an environment entry: "-e" comes right before it
HasEnv(c, w) == \E i \in 2..Len(c) : c[i] = w /\ c[i - 1] = <<"-e">>
TaskScopedWord(w) == Head(w) \in {"SW_TASK_STEP=", "SW_TASK_INDEX="}
LastWord(c) == c[Len(c)]
\* the last stage of the run() call in progress has been called
JobStageCalled == "run eval job" \in Range(trace)
Executed(c) == \E i \in 1..Len(calls) : calls[i] = c

(***************************************************************************)
(* C18: the container command.  For a SINGLE task with step s and task     *)
(* index i the generated command passes the environment entries            *)
(* SW_TASK_STEP=s and SW_TASK_INDEX=i and ends with run_single; for ALL it *)
(* ends with run_all and passes neither entry; for any other task kind the *)
(* builder raises and there is no command.  With gencmd set nothing is     *)
(* executed, neither the image pull nor the container run; without it the  *)
(* pull comes first and the generated command is what is run.              *)
(***************************************************************************)
C18_ContainerCommand ==
    /\ (use_docker /\ JobStageCalled) =>
          /\ args.typ = TYPE_SINGLE =>
                /\ cmd # NoCmd
                /\ HasEnv(cmd, <<"SW_TASK_STEP=", args.step>>)
                /\ HasEnv(cmd, <<"SW_TASK_INDEX=", IntStr(args.task_index)>>)
                /\ LastWord(cmd) = <<"run_single">>
          /\ args.typ = TYPE_ALL =>
                /\ cmd # NoCmd
                /\ LastWord(cmd) = <<"run_all">>
                /\ \A k \in 1..Len(cmd) : ~TaskScopedWord(cmd[k])
          /\ args.typ \notin {TYPE_ALL, TYPE_SINGLE} =>
                /\ cmd = NoCmd
                /\ calls = <<>>
                /\ StageRaised
                /\ pc = "except" => exc.msg = "no support to gen docker cmd"
          /\ gencmd => calls = <<>>
          /\ (~gencmd /\ cmd # NoCmd) =>
                (calls = <<PullCmd>> \/ calls = <<PullCmd, cmd>>)
    /\ cmd # NoCmd => (use_docker /\ JobStageCalled)
    /\ calls # <<>> => (cmd # NoCmd /\ ~gencmd)

\* a SINGLE task with gencmd set: the command is generated, with both task
\* entries and run_single, and nothing was executed
C18_Witness ==
    /\ RunOver
    /\ use_docker
    /\ gencmd
    /\ args.typ = TYPE_SINGLE
    /\ args.step = "infer"
    /\ HasEnv(cmd, <<"SW_TASK_STEP=", "infer">>)
    /\ HasEnv(cmd, <<"SW_TASK_INDEX=", "2">>)
    /\ LastWord(cmd) = <<"run_single">>
    /\ calls = <<>>
    /\ outcome.kind = "returned"

====
